---- MODULE Spec2Model ----
(***************************************************************************)
(* Model of the rebalancing assertions of setprotocol.js                   *)
(* (RebalancingAssertions) running against a rebalancing set token that    *)
(* lives on an independently advancing ledger.                             *)
(*                                                                         *)
(* Every assertion is an async function: each `await ...callAsync()` is a  *)
(* suspension point at which the ledger and the wall clock may move.  The  *)
(* code that follows an await up to the next await (or the return / throw) *)
(* runs without interruption and is one action of the model.               *)
(***************************************************************************)
EXTENDS Integers, Sequences, FiniteSets, TLC

VARIABLES ledger, now, call

vars == <<ledger, now, call>>

(***************************************************************************)
(* Bounds of the model.                                                    *)
(***************************************************************************)
\* the wall clock (milliseconds) runs up to MaxNow, in steps of TickSteps
MaxNow == 3000
TickSteps == {500, 1000}
\* largest supply of current sets an auction starts with
MaxSets == 3
\* largest minimum bid an auction starts with
MaxMinimumBid == 2
\* The ECMAScript time range ends at 8.64e15 ms; moment renders any instant
\* beyond it as "Invalid date".  TLC integers are 32 bits wide, so the end
\* of the range is represented by MaxValidDateMs and an interval that lies
\* beyond it by HugeInterval (seconds).
MaxValidDateMs == 6000
HugeInterval == 7

\* largest balance and largest allowance a bidder holds of a component
MaxBalance == 2
\* largest inflow of a component the auction asks for one unit of a bid
MaxUnitInflow == 1

\* callers with a call in flight
Callers == {1}

\* intervals a manager may have configured, in seconds
RebalanceIntervals == {1, HugeInterval}
ProposalPeriods == {1, HugeInterval}

\* bid quantities a caller may pass (BigNumber, any sign)
Quantities == (-2)..(MaxSets + 1)

\* quantities passed to the price query of the auction
BidQuantities == {1, 2}

(***************************************************************************)
(* Addresses are hex strings; the characters matter because the code       *)
(* compares them as strings.                                               *)
(***************************************************************************)
NoAddress == <<>>
AddrLower == <<"0", "x", "a", "b">>
AddrMixed == <<"0", "x", "A", "b">>
AddrOther == <<"0", "x", "c", "d">>
Addresses == {AddrLower, AddrMixed, AddrOther}

\* the Set whose natural unit is queried, and a string that is no address
SetAddr == <<"0", "x", "5", "e">>
NotAnAddress == <<"5", "e", "t">>

\* the combined token array of the auction
TokenA == <<"0", "x", "1">>
TokenB == <<"0", "x", "2">>
CombinedTokenArray == <<TokenA, TokenB>>
ComponentIndexes == 1..Len(CombinedTokenArray)

toLowerCaseChar(ch) ==
    CASE ch = "A" -> "a"
      [] ch = "B" -> "b"
      [] ch = "C" -> "c"
      [] ch = "D" -> "d"
      [] ch = "X" -> "x"
      [] OTHER -> ch

\* String.prototype.toLowerCase
toLowerCase(s) == [i \in 1..Len(s) |-> toLowerCaseChar(s[i])]

\* two encodings denote the same account iff they agree up to letter case
SameAccount(a, b) == toLowerCase(a) = toLowerCase(b)

(***************************************************************************)
(* RebalancingState (types/common.ts)                                      *)
(***************************************************************************)
DEFAULT == 0
PROPOSAL == 1
REBALANCE == 2
RebalancingStates == {DEFAULT, PROPOSAL, REBALANCE}

(***************************************************************************)
(* Outcomes of a call.                                                     *)
(***************************************************************************)
\* a read that has not resolved yet (ledger values are unsigned)
None == 0 - 1
Pending == [kind |-> "pending", payload |-> <<>>]
Ok == [kind |-> "ok", payload |-> <<>>]
Err(kind, payload) == [kind |-> kind, payload |-> payload]
\* a rejected callAsync: the rejection propagates out of the async function
NetworkFailure == [kind |-> "NetworkFailure", payload |-> <<>>]

Idle == [op |-> "none", pc |-> "idle", caller |-> NoAddress, quantity |-> 0,
         r1 |-> None, r2 |-> None, addr |-> NoAddress, clock |-> None,
         result |-> Pending,
         \* the Set a SetTokenAPI call is about
         setAddress |-> NoAddress,
         \* inflowArray and components of a balance / allowance assertion
         inflowArray |-> <<>>, components |-> <<>>,
         \* its per-component checks, and how many of them have settled
         checks |-> <<>>, settled |-> 0,
         \* the component a SetTokenAPI call asks about, its position in
         \* the component list, and the units read
         componentAddress |-> NoAddress, componentIndex |-> None,
         componentUnits |-> <<>>]

(***************************************************************************)
(* BigNumber helpers.                                                      *)
(***************************************************************************)
NaN == [nan |-> TRUE, value |-> 0]
Num(v) == [nan |-> FALSE, value |-> v]

\* BigNumber.modulo: remainder with the sign of the dividend, NaN for a
\* zero divisor
modulo(a, b) ==
    LET abs(x) == IF x >= 0 THEN x ELSE 0 - x
    IN IF b = 0 THEN NaN
       ELSE IF a >= 0 THEN Num(abs(a) % abs(b)) ELSE Num(0 - (abs(a) % abs(b)))

\* BigNumber.isZero: false for NaN
isZero(x) == ~x.nan /\ x.value = 0

(***************************************************************************)
(* moment(ms).format('dddd, MMMM Do YYYY, h:mm:ss a'), rendered in UTC.    *)
(* The fields of the string are kept as a record.                          *)
(***************************************************************************)
InvalidDate == [valid |-> FALSE, dddd |-> 0, MMMM |-> 0, Do |-> 0, YYYY |-> 0,
                h |-> 0, mm |-> 0, ss |-> 0, a |-> "none"]

\* the fields of the date text for an instant inside the range of dates
dateFields(ms) ==
    LET secs == ms \div 1000
        days == secs \div 86400
        H    == (secs \div 3600) % 24
        \* civil date from the day number
        z    == days + 719468
        era  == z \div 146097
        doe  == z - era * 146097
        yoe  == (doe - doe \div 1460 + doe \div 36524 - doe \div 146096) \div 365
        doy  == doe - (365 * yoe + yoe \div 4 - yoe \div 100)
        mp   == (5 * doy + 2) \div 153
        d    == doy - (153 * mp + 2) \div 5 + 1
        m    == IF mp < 10 THEN mp + 3 ELSE mp - 9
        y    == yoe + era * 400 + (IF m <= 2 THEN 1 ELSE 0)
    IN [valid |-> TRUE,
        dddd  |-> (4 + days) % 7,
        MMMM  |-> m,
        Do    |-> d,
        YYYY  |-> y,
        h     |-> IF H % 12 = 0 THEN 12 ELSE H % 12,
        mm    |-> (secs \div 60) % 60,
        ss    |-> secs % 60,
        a     |-> IF H < 12 THEN "am" ELSE "pm"]

\* mutant: the format string lacks the seconds ('h:mm a')
format_noSeconds(ms) ==
    IF ms > MaxValidDateMs \/ ms < 0 - MaxValidDateMs THEN InvalidDate
    ELSE [dateFields(ms) EXCEPT !.ss = 0]

format(ms) ==
    IF ms > MaxValidDateMs \/ ms < 0 - MaxValidDateMs THEN InvalidDate
    ELSE dateFields(ms)

(***************************************************************************)
(* The decision each assertion takes once its reads have resolved.         *)
(***************************************************************************)
\* mutant: the comparison tests the wrong state
isNotInRebalanceState_wrongState(currentState) ==
    IF currentState = PROPOSAL
    THEN Err("REBALANCE_IN_PROGRESS", <<>>)
    ELSE Ok

isNotInRebalanceState(currentState) ==
    IF currentState = REBALANCE
    THEN Err("REBALANCE_IN_PROGRESS", <<>>)
    ELSE Ok

\* mutant: only a running rebalance is rejected
isInProposalState_acceptsDefault(currentState) ==
    IF currentState = REBALANCE
    THEN Err("INCORRECT_STATE", <<"Proposal">>)
    ELSE Ok

isInProposalState(currentState) ==
    IF ~(currentState = PROPOSAL)
    THEN Err("INCORRECT_STATE", <<"Proposal">>)
    ELSE Ok

\* mutant: only the Default state is rejected
isInRebalanceState_acceptsProposal(currentState) ==
    IF currentState = DEFAULT
    THEN Err("INCORRECT_STATE", <<"Rebalance">>)
    ELSE Ok

\* mutant: the negation is lost
isInRebalanceState_noNegation(currentState) ==
    IF currentState = REBALANCE
    THEN Err("INCORRECT_STATE", <<"Rebalance">>)
    ELSE Ok

isInRebalanceState(currentState) ==
    IF ~(currentState = REBALANCE)
    THEN Err("INCORRECT_STATE", <<"Rebalance">>)
    ELSE Ok

\* `manager != caller` on two strings
isManager(manager, caller) ==
    IF manager # caller
    THEN Err("NOT_REBALANCING_MANAGER", <<caller>>)
    ELSE Ok

nextAvailableRebalance(startTime, period) == (startTime + period) * 1000

\* mutant: the boundary instant is rejected
sufficientTimeBetweenRebalance_exclusive(lastRebalanceTime, rebalanceInterval, currentTimeStamp) ==
    IF nextAvailableRebalance(lastRebalanceTime, rebalanceInterval) >= currentTimeStamp
    THEN Err("INSUFFICIENT_TIME_PASSED",
             <<format(nextAvailableRebalance(lastRebalanceTime, rebalanceInterval))>>)
    ELSE Ok

sufficientTimeBetweenRebalance(lastRebalanceTime, rebalanceInterval, currentTimeStamp) ==
    IF nextAvailableRebalance(lastRebalanceTime, rebalanceInterval) > currentTimeStamp
    THEN Err("INSUFFICIENT_TIME_PASSED",
             <<format(nextAvailableRebalance(lastRebalanceTime, rebalanceInterval))>>)
    ELSE Ok

\* mutant: seconds are compared with milliseconds
sufficientTimeInProposalState_seconds(proposalStartTime, proposalPeriod, currentTimeStamp) ==
    IF proposalStartTime + proposalPeriod > currentTimeStamp
    THEN Err("INSUFFICIENT_TIME_PASSED",
             <<format(nextAvailableRebalance(proposalStartTime, proposalPeriod))>>)
    ELSE Ok

sufficientTimeInProposalState(proposalStartTime, proposalPeriod, currentTimeStamp) ==
    IF nextAvailableRebalance(proposalStartTime, proposalPeriod) > currentTimeStamp
    THEN Err("INSUFFICIENT_TIME_PASSED",
             <<format(nextAvailableRebalance(proposalStartTime, proposalPeriod))>>)
    ELSE Ok

\* mutant: exactly one minimum bid remaining is let through
enoughSetsRebalanced_strict(minimumBid, remainingCurrentSets) ==
    IF remainingCurrentSets > minimumBid
    THEN Err("NOT_ENOUGH_SETS_REBALANCED", <<minimumBid, remainingCurrentSets>>)
    ELSE Ok

enoughSetsRebalanced(minimumBid, remainingCurrentSets) ==
    IF remainingCurrentSets >= minimumBid
    THEN Err("NOT_ENOUGH_SETS_REBALANCED", <<minimumBid, remainingCurrentSets>>)
    ELSE Ok

\* mutant: a bid for everything that remains is rejected
bidAmountLessThanRemainingSets_strict(remainingCurrentSets, bidQuantity) ==
    IF bidQuantity >= remainingCurrentSets
    THEN Err("BID_AMOUNT_EXCEEDS_REMAINING_CURRENT_SETS",
             <<remainingCurrentSets, bidQuantity>>)
    ELSE Ok

bidAmountLessThanRemainingSets(remainingCurrentSets, bidQuantity) ==
    IF bidQuantity > remainingCurrentSets
    THEN Err("BID_AMOUNT_EXCEEDS_REMAINING_CURRENT_SETS",
             <<remainingCurrentSets, bidQuantity>>)
    ELSE Ok

\* mutant: the operands of modulo are swapped
bidIsMultipleOfMinimumBid_swapped(minimumBid, bidQuantity) ==
    IF ~isZero(modulo(minimumBid, bidQuantity))
    THEN Err("BID_AMOUNT_NOT_MULTIPLE_OF_MINIMUM_BID", <<bidQuantity, minimumBid>>)
    ELSE Ok

bidIsMultipleOfMinimumBid(minimumBid, bidQuantity) ==
    IF ~isZero(modulo(bidQuantity, minimumBid))
    THEN Err("BID_AMOUNT_NOT_MULTIPLE_OF_MINIMUM_BID", <<bidQuantity, minimumBid>>)
    ELSE Ok

(***************************************************************************)
(* Initial state: a freshly created rebalancing set token, no call in      *)
(* flight.                                                                 *)
(***************************************************************************)
Init ==
    /\ now = 0
    /\ \E mgr \in {AddrLower, AddrOther}, ri \in RebalanceIntervals, pp \in ProposalPeriods :
          ledger = [rebalanceState |-> DEFAULT,
                    manager |-> mgr,
                    lastRebalanceTimestamp |-> 0,
                    rebalanceInterval |-> ri,
                    proposalStartTime |-> 0,
                    proposalPeriod |-> pp,
                    minimumBid |-> 0,
                    remainingCurrentSets |-> 0,
                    naturalUnit |-> 1,
                    unitInflow |-> [i \in ComponentIndexes |-> 0],
                    balance |-> [i \in ComponentIndexes |-> 0],
                    allowance |-> [i \in ComponentIndexes |-> 0]]
    /\ call = [c \in Callers |-> Idle]

(***************************************************************************)
(* The ledger's own transitions and the clock.                             *)
(***************************************************************************)
blockTimestamp == now \div 1000

Tick ==
    /\ \E d \in TickSteps :
          /\ now + d <= MaxNow
          /\ now' = now + d
    /\ UNCHANGED <<ledger, call>>

propose ==
    /\ ledger.rebalanceState # REBALANCE
    /\ blockTimestamp >= ledger.lastRebalanceTimestamp + ledger.rebalanceInterval
    /\ ledger' = [ledger EXCEPT !.rebalanceState = PROPOSAL,
                                !.proposalStartTime = blockTimestamp]
    /\ UNCHANGED <<now, call>>

rebalance ==
    /\ ledger.rebalanceState = PROPOSAL
    /\ blockTimestamp >= ledger.proposalStartTime + ledger.proposalPeriod
    /\ \E mb \in 1..MaxMinimumBid, sets \in 0..MaxSets :
          ledger' = [ledger EXCEPT !.rebalanceState = REBALANCE,
                                   !.minimumBid = mb,
                                   !.remainingCurrentSets = sets]
    /\ UNCHANGED <<now, call>>

bid ==
    /\ ledger.rebalanceState = REBALANCE
    /\ \E q \in 1..MaxSets :
          /\ q % ledger.minimumBid = 0
          /\ q <= ledger.remainingCurrentSets
          /\ ledger' = [ledger EXCEPT !.remainingCurrentSets = @ - q]
    /\ UNCHANGED <<now, call>>

settleRebalance ==
    /\ ledger.rebalanceState = REBALANCE
    /\ ledger.remainingCurrentSets < ledger.minimumBid
    /\ ledger' = [ledger EXCEPT !.rebalanceState = DEFAULT,
                                !.lastRebalanceTimestamp = blockTimestamp]
    /\ UNCHANGED <<now, call>>

(***************************************************************************)
(* Calls.  Invoke covers the invocation up to and including                *)
(* `await RebalancingSetTokenContract.at(...)`, which reads none of the    *)
(* fields above.                                                           *)
(***************************************************************************)
Invoke(c, op, caller, quantity) ==
    /\ call[c].pc = "idle"
    /\ call' = [call EXCEPT ![c] = [Idle EXCEPT !.op = op, !.pc = "read1",
                                                !.caller = caller,
                                                !.quantity = quantity]]
    /\ UNCHANGED <<ledger, now>>

At(c, op, pc) == call[c].op = op /\ call[c].pc = pc

Finish(c, rec, res) ==
    /\ call' = [call EXCEPT ![c] = [rec EXCEPT !.pc = "done", !.result = res]]
    /\ UNCHANGED <<ledger, now>>

Call_isNotInRebalanceState(c) == Invoke(c, "isNotInRebalanceState", NoAddress, 0)

Resume_isNotInRebalanceState(c) ==
    /\ At(c, "isNotInRebalanceState", "read1")
    /\ LET currentState == ledger.rebalanceState
       IN Finish(c, [call[c] EXCEPT !.r1 = currentState],
                 isNotInRebalanceState(currentState))

Call_isInProposalState(c) == Invoke(c, "isInProposalState", NoAddress, 0)

\* mutant: the state fetched when the assertions were constructed is used
Resume_isInProposalState_cached(c) ==
    /\ At(c, "isInProposalState", "read1")
    /\ LET currentState == DEFAULT
       IN Finish(c, [call[c] EXCEPT !.r1 = ledger.rebalanceState],
                 isInProposalState(currentState))

Resume_isInProposalState(c) ==
    /\ At(c, "isInProposalState", "read1")
    /\ LET currentState == ledger.rebalanceState
       IN Finish(c, [call[c] EXCEPT !.r1 = currentState],
                 isInProposalState(currentState))

Call_isInRebalanceState(c) == Invoke(c, "isInRebalanceState", NoAddress, 0)

Resume_isInRebalanceState(c) ==
    /\ At(c, "isInRebalanceState", "read1")
    /\ LET currentState == ledger.rebalanceState
       IN Finish(c, [call[c] EXCEPT !.r1 = currentState],
                 isInRebalanceState(currentState))

Call_isManager(c) == \E caller \in Addresses : Invoke(c, "isManager", caller, 0)

Resume_isManager(c) ==
    /\ At(c, "isManager", "read1")
    /\ LET manager == ledger.manager
       IN Finish(c, [call[c] EXCEPT !.addr = manager],
                 isManager(manager, call[c].caller))

Call_sufficientTimeBetweenRebalance(c) ==
    Invoke(c, "sufficientTimeBetweenRebalance", NoAddress, 0)

\* lastRebalanceTimestamp resolves; rebalanceInterval is requested
Read_lastRebalanceTimestamp(c) ==
    /\ At(c, "sufficientTimeBetweenRebalance", "read1")
    /\ call' = [call EXCEPT ![c].r1 = ledger.lastRebalanceTimestamp, ![c].pc = "read2"]
    /\ UNCHANGED <<ledger, now>>

\* rebalanceInterval resolves; Date.now() is taken and the comparison made
Resume_sufficientTimeBetweenRebalance(c) ==
    /\ At(c, "sufficientTimeBetweenRebalance", "read2")
    /\ LET rebalanceInterval == ledger.rebalanceInterval
       IN Finish(c, [call[c] EXCEPT !.r2 = rebalanceInterval, !.clock = now],
                 sufficientTimeBetweenRebalance(call[c].r1, rebalanceInterval, now))

Call_sufficientTimeInProposalState(c) ==
    Invoke(c, "sufficientTimeInProposalState", NoAddress, 0)

Read_proposalStartTime(c) ==
    /\ At(c, "sufficientTimeInProposalState", "read1")
    /\ call' = [call EXCEPT ![c].r1 = ledger.proposalStartTime, ![c].pc = "read2"]
    /\ UNCHANGED <<ledger, now>>

Resume_sufficientTimeInProposalState(c) ==
    /\ At(c, "sufficientTimeInProposalState", "read2")
    /\ LET proposalPeriod == ledger.proposalPeriod
       IN Finish(c, [call[c] EXCEPT !.r2 = proposalPeriod, !.clock = now],
                 sufficientTimeInProposalState(call[c].r1, proposalPeriod, now))

Call_enoughSetsRebalanced(c) == Invoke(c, "enoughSetsRebalanced", NoAddress, 0)

\* mutant: minimumBid is kept in a field of the assertions object, which
\* every call in flight shares
Read_minimumBid_shared(c) ==
    /\ At(c, "enoughSetsRebalanced", "read1")
    /\ call' = [d \in DOMAIN call |->
                  IF d = c
                  THEN [call[d] EXCEPT !.r1 = ledger.minimumBid, !.pc = "read2"]
                  ELSE IF call[d].op = "enoughSetsRebalanced"
                       THEN [call[d] EXCEPT !.r1 = ledger.minimumBid]
                       ELSE call[d]]
    /\ UNCHANGED <<ledger, now>>

Read_minimumBid(c) ==
    /\ At(c, "enoughSetsRebalanced", "read1")
    /\ call' = [call EXCEPT ![c].r1 = ledger.minimumBid, ![c].pc = "read2"]
    /\ UNCHANGED <<ledger, now>>

\* mutant: minimumBid is read again together with remainingCurrentSets
Resume_enoughSetsRebalanced_rereads(c) ==
    /\ At(c, "enoughSetsRebalanced", "read2")
    /\ LET remainingCurrentSets == ledger.remainingCurrentSets
           minimumBid == ledger.minimumBid
       IN Finish(c, [call[c] EXCEPT !.r1 = minimumBid, !.r2 = remainingCurrentSets],
                 enoughSetsRebalanced(minimumBid, remainingCurrentSets))

Resume_enoughSetsRebalanced(c) ==
    /\ At(c, "enoughSetsRebalanced", "read2")
    /\ LET remainingCurrentSets == ledger.remainingCurrentSets
       IN Finish(c, [call[c] EXCEPT !.r2 = remainingCurrentSets],
                 enoughSetsRebalanced(call[c].r1, remainingCurrentSets))

Call_bidAmountLessThanRemainingSets(c) ==
    \E bidQuantity \in Quantities :
        Invoke(c, "bidAmountLessThanRemainingSets", NoAddress, bidQuantity)

Resume_bidAmountLessThanRemainingSets(c) ==
    /\ At(c, "bidAmountLessThanRemainingSets", "read1")
    /\ LET remainingCurrentSets == ledger.remainingCurrentSets
       IN Finish(c, [call[c] EXCEPT !.r1 = remainingCurrentSets],
                 bidAmountLessThanRemainingSets(remainingCurrentSets, call[c].quantity))

Call_bidIsMultipleOfMinimumBid(c) ==
    \E bidQuantity \in Quantities :
        Invoke(c, "bidIsMultipleOfMinimumBid", NoAddress, bidQuantity)

Resume_bidIsMultipleOfMinimumBid(c) ==
    /\ At(c, "bidIsMultipleOfMinimumBid", "read1")
    /\ LET minimumBid == ledger.minimumBid
       IN Finish(c, [call[c] EXCEPT !.r1 = minimumBid],
                 bidIsMultipleOfMinimumBid(minimumBid, call[c].quantity))

\* the callAsync a call is suspended on rejects
ReadFails(c) ==
    /\ call[c].pc \in {"read1", "read2"}
    /\ Finish(c, call[c], NetworkFailure)

\* the caller has observed the outcome
Return(c) ==
    /\ call[c].pc = "done"
    /\ call' = [call EXCEPT ![c] = Idle]
    /\ UNCHANGED <<ledger, now>>

Next ==
    \/ Tick
    \/ propose
    \/ rebalance
    \/ bid
    \/ settleRebalance
    \/ \E c \in DOMAIN call : Call_isNotInRebalanceState(c)
    \/ \E c \in DOMAIN call : Resume_isNotInRebalanceState(c)
    \/ \E c \in DOMAIN call : Call_isInProposalState(c)
    \/ \E c \in DOMAIN call : Resume_isInProposalState(c)
    \/ \E c \in DOMAIN call : Call_isInRebalanceState(c)
    \/ \E c \in DOMAIN call : Resume_isInRebalanceState(c)
    \/ \E c \in DOMAIN call : Call_isManager(c)
    \/ \E c \in DOMAIN call : Resume_isManager(c)
    \/ \E c \in DOMAIN call : Call_sufficientTimeBetweenRebalance(c)
    \/ \E c \in DOMAIN call : Read_lastRebalanceTimestamp(c)
    \/ \E c \in DOMAIN call : Resume_sufficientTimeBetweenRebalance(c)
    \/ \E c \in DOMAIN call : Call_sufficientTimeInProposalState(c)
    \/ \E c \in DOMAIN call : Read_proposalStartTime(c)
    \/ \E c \in DOMAIN call : Resume_sufficientTimeInProposalState(c)
    \/ \E c \in DOMAIN call : Call_enoughSetsRebalanced(c)
    \/ \E c \in DOMAIN call : Read_minimumBid(c)
    \/ \E c \in DOMAIN call : Resume_enoughSetsRebalanced(c)
    \/ \E c \in DOMAIN call : Call_bidAmountLessThanRemainingSets(c)
    \/ \E c \in DOMAIN call : Resume_bidAmountLessThanRemainingSets(c)
    \/ \E c \in DOMAIN call : Call_bidIsMultipleOfMinimumBid(c)
    \/ \E c \in DOMAIN call : Resume_bidIsMultipleOfMinimumBid(c)
    \/ \E c \in DOMAIN call : ReadFails(c)
    \/ \E c \in DOMAIN call : Return(c)

Spec == Init /\ [][Next]_vars

(***************************************************************************)
(* SetTokenAPI.isMultipleOfNaturalUnitAsync (the version whose private     *)
(* assertion is a plain function).                                         *)
(***************************************************************************)
\* assert.schema.isValidAddress: a hex string
isValidAddress(variableName, value) ==
    IF Len(value) >= 3 /\ value[1] = "0" /\ value[2] = "x"
    THEN Ok
    ELSE Err("INVALID_ADDRESS", <<variableName>>)

\* assert.common.greaterThanZero
greaterThanZero(quantity, errorMessage) ==
    IF quantity <= 0 THEN errorMessage ELSE Ok

QUANTITY_NEEDS_TO_BE_POSITIVE(quantity) ==
    Err("QUANTITY_NEEDS_TO_BE_POSITIVE", <<quantity>>)

\* mutant: the quantity is not checked
assertIsMultipleOfNaturalUnitAsync_noQuantityCheck(setAddress, quantity) ==
    isValidAddress("setAddress", setAddress)

\* the first assertion that throws ends the function
assertIsMultipleOfNaturalUnitAsync(setAddress, quantity) ==
    IF isValidAddress("setAddress", setAddress) # Ok
    THEN isValidAddress("setAddress", setAddress)
    ELSE greaterThanZero(quantity, QUANTITY_NEEDS_TO_BE_POSITIVE(quantity))

\* a resolved Promise<boolean>
Value(v) == [kind |-> "value", payload |-> <<v>>]

\* quantity.mod(naturalUnit).eq(ZERO)
isMultipleOfNaturalUnit(quantity, naturalUnit) ==
    Value(~modulo(quantity, naturalUnit).nan /\ modulo(quantity, naturalUnit).value = 0)

\* the call runs up to `await this.setToken.naturalUnit(setAddress)`; an
\* assertion that throws rejects the promise of the call at once
Call_isMultipleOfNaturalUnitAsync(c) ==
    /\ call[c].pc = "idle"
    /\ \E setAddress \in {SetAddr, NotAnAddress}, quantity \in Quantities :
          LET frame == [Idle EXCEPT !.op = "isMultipleOfNaturalUnitAsync",
                                    !.setAddress = setAddress,
                                    !.quantity = quantity]
              thrown == assertIsMultipleOfNaturalUnitAsync(setAddress, quantity)
          IN call' = [call EXCEPT ![c] =
                        IF thrown # Ok
                        THEN [frame EXCEPT !.pc = "done", !.result = thrown]
                        ELSE [frame EXCEPT !.pc = "read1"]]
    /\ UNCHANGED <<ledger, now>>

Resume_isMultipleOfNaturalUnitAsync(c) ==
    /\ At(c, "isMultipleOfNaturalUnitAsync", "read1")
    /\ LET naturalUnit == ledger.naturalUnit
       IN Finish(c, [call[c] EXCEPT !.r1 = naturalUnit],
                 isMultipleOfNaturalUnit(call[c].quantity, naturalUnit))

(***************************************************************************)
(* SetTokenAPI.isMultipleOfNaturalUnitAsync, the version whose private     *)
(* assertion is an async function called without await.                    *)
(***************************************************************************)
\* a call of an async function whose promise is dropped: what the function
\* throws rejects that promise and nothing reaches the caller
unawaited(thrown) == Ok

Call_isMultipleOfNaturalUnitAsync_unawaited(c) ==
    /\ call[c].pc = "idle"
    /\ \E setAddress \in {SetAddr, NotAnAddress}, quantity \in Quantities :
          LET frame == [Idle EXCEPT !.op = "isMultipleOfNaturalUnitAsync_unawaited",
                                    !.setAddress = setAddress,
                                    !.quantity = quantity]
              thrown == unawaited(assertIsMultipleOfNaturalUnitAsync(setAddress, quantity))
          IN call' = [call EXCEPT ![c] =
                        IF thrown # Ok
                        THEN [frame EXCEPT !.pc = "done", !.result = thrown]
                        ELSE [frame EXCEPT !.pc = "read1"]]
    /\ UNCHANGED <<ledger, now>>

Resume_isMultipleOfNaturalUnitAsync_unawaited(c) ==
    /\ At(c, "isMultipleOfNaturalUnitAsync_unawaited", "read1")
    /\ LET naturalUnit == ledger.naturalUnit
       IN Finish(c, [call[c] EXCEPT !.r1 = naturalUnit],
                 isMultipleOfNaturalUnit(call[c].quantity, naturalUnit))

(***************************************************************************)
(* The tokens of the auction: what the price query and the component       *)
(* tokens answer, and how the ledger moves them.                           *)
(***************************************************************************)
\* the bidder whose funds are checked and the contract that spends them
OwnerAddress == AddrLower
SpenderAddress == AddrOther

\* rebalancingSetToken.getBidPrice(quantity): the inflow of each component
getBidPrice(quantity) == [i \in ComponentIndexes |-> ledger.unitInflow[i] * quantity]

\* the bidder receives or sends tokens of a component
transfer ==
    /\ \E i \in ComponentIndexes, v \in 0..MaxBalance :
          /\ v # ledger.balance[i]
          /\ ledger' = [ledger EXCEPT !.balance[i] = v]
    /\ UNCHANGED <<now, call>>

\* the bidder approves the spender for nothing or for the largest amount
approve ==
    /\ \E i \in ComponentIndexes, v \in {0, MaxBalance} :
          /\ v # ledger.allowance[i]
          /\ ledger' = [ledger EXCEPT !.allowance[i] = v]
    /\ UNCHANGED <<now, call>>

\* the bidder trades its whole holding of one component for the other
swap ==
    /\ \E i, j \in ComponentIndexes :
          /\ i # j
          /\ ledger.balance[i] > 0
          /\ ledger.balance[j] = 0
          /\ ledger' = [ledger EXCEPT !.balance[j] = ledger.balance[i],
                                      !.balance[i] = 0]
    /\ UNCHANGED <<now, call>>

\* the auction price moves in favour of the bidder
priceMove ==
    /\ \E i \in ComponentIndexes :
          /\ ledger.unitInflow[i] > 0
          /\ ledger' = [ledger EXCEPT !.unitInflow[i] = @ - 1]
    /\ UNCHANGED <<now, call>>

(***************************************************************************)
(* ERC20Assertions, as the per-component checks use them.                  *)
(***************************************************************************)
hasSufficientBalanceAsync(tokenAddress, userBalance, requiredBalance) ==
    IF userBalance < requiredBalance
    THEN Err("INSUFFICIENT_BALANCE", <<tokenAddress, requiredBalance, userBalance>>)
    ELSE Ok

hasSufficientAllowanceAsync(tokenAddress, allowance, requiredBalance) ==
    IF allowance < requiredBalance
    THEN Err("INSUFFICIENT_ALLOWANCE", <<tokenAddress, requiredBalance, allowance>>)
    ELSE Ok

(***************************************************************************)
(* hasSufficientBalances and hasSufficientAllowances.                      *)
(***************************************************************************)
BalanceOps == {"hasSufficientBalances", "hasSufficientAllowances"}

\* mutant: every component is checked against the inflow of the first
requiredBalance_first(inflowArray, index) == inflowArray[1]

\* const requiredBalance = inflowArray[index]
requiredBalance(inflowArray, index) == inflowArray[index]

\* a per-component check that has been dispatched and has not settled
Dispatched(required) ==
    [outcome |-> Pending, required |-> required, actual |-> None, order |-> 0]

\* mutant: the first check to settle decides, as with Promise.race
promiseAll_race(current, settledOutcome, outcomes) ==
    IF current # Pending THEN current ELSE settledOutcome

\* await Promise.all(promises), as one of the promises settles: the first
\* rejection rejects it, the last fulfilment fulfils it, and a settled
\* promise stays as it is
promiseAll(current, settledOutcome, outcomes) ==
    IF current # Pending THEN current
    ELSE IF settledOutcome # Ok THEN settledOutcome
    ELSE IF \A i \in DOMAIN outcomes : outcomes[i] = Ok THEN Ok
    ELSE Pending

\* mutant: the bid is placed (a transaction) where the price is queried
ReadBidPrice_placesBid(c, op) ==
    /\ At(c, op, "read1")
    /\ call' = [call EXCEPT ![c].inflowArray = getBidPrice(call[c].quantity),
                            ![c].pc = "read2"]
    /\ ledger' = [ledger EXCEPT !.remainingCurrentSets = @ - call[c].quantity]
    /\ UNCHANGED now

\* getBidPrice resolves; getCombinedTokenArray is requested
ReadBidPrice(c, op) ==
    /\ At(c, op, "read1")
    /\ call' = [call EXCEPT ![c].inflowArray = getBidPrice(call[c].quantity),
                            ![c].pc = "read2"]
    /\ UNCHANGED <<ledger, now>>

\* getCombinedTokenArray resolves; the token instances are requested, all
\* at once, and awaited together
ReadCombinedTokenArray(c, op) ==
    /\ At(c, op, "read2")
    /\ call' = [call EXCEPT ![c].components = CombinedTokenArray,
                            ![c].pc = "instances"]
    /\ UNCHANGED <<ledger, now>>

\* mutant: the checks are awaited one after the other, so that only the
\* first is under way
DispatchChecks_oneByOne(c, op) ==
    /\ At(c, op, "instances")
    /\ call' = [call EXCEPT
                  ![c].checks = <<Dispatched(requiredBalance(call[c].inflowArray, 1))>>,
                  ![c].pc = "all"]
    /\ UNCHANGED <<ledger, now>>

\* the token instances resolve; every per-component check is started, and
\* the call awaits them together
DispatchChecks(c, op) ==
    /\ At(c, op, "instances")
    /\ call' = [call EXCEPT
                  ![c].checks = [i \in 1..Len(call[c].components) |->
                                    Dispatched(requiredBalance(call[c].inflowArray, i))],
                  ![c].pc = "all"]
    /\ UNCHANGED <<ledger, now>>

\* the check of component i settles with `outcome`, having read `actual`
SettleCheck(c, op, i, outcome, actual) ==
    /\ call[c].op = op
    /\ call[c].pc \in {"all", "done"}
    /\ i \in DOMAIN call[c].checks
    /\ call[c].checks[i].outcome = Pending
    /\ LET checks == [call[c].checks EXCEPT ![i].outcome = outcome,
                                             ![i].actual = actual,
                                             ![i].order = call[c].settled + 1]
           result == promiseAll(call[c].result, outcome,
                                [j \in DOMAIN checks |-> checks[j].outcome])
       IN call' = [call EXCEPT ![c].checks = checks,
                               ![c].settled = @ + 1,
                               ![c].result = result,
                               ![c].pc = IF result # Pending THEN "done" ELSE @]
    /\ UNCHANGED <<ledger, now>>

Call_hasSufficientBalances(c) ==
    \E quantity \in BidQuantities :
        Invoke(c, "hasSufficientBalances", OwnerAddress, quantity)

Read_getBidPrice_Balances(c) == ReadBidPrice(c, "hasSufficientBalances")

Read_getCombinedTokenArray_Balances(c) ==
    ReadCombinedTokenArray(c, "hasSufficientBalances")

Dispatch_hasSufficientBalance(c) == DispatchChecks(c, "hasSufficientBalances")

\* balanceOf of component i resolves and is compared
Settle_hasSufficientBalance(c) ==
    \E i \in DOMAIN call[c].checks :
        SettleCheck(c, "hasSufficientBalances", i,
                    hasSufficientBalanceAsync(call[c].components[i], ledger.balance[i],
                                              call[c].checks[i].required),
                    ledger.balance[i])

Call_hasSufficientAllowances(c) ==
    \E quantity \in BidQuantities :
        Invoke(c, "hasSufficientAllowances", OwnerAddress, quantity)

Read_getBidPrice_Allowances(c) == ReadBidPrice(c, "hasSufficientAllowances")

Read_getCombinedTokenArray_Allowances(c) ==
    ReadCombinedTokenArray(c, "hasSufficientAllowances")

Dispatch_hasSufficientAllowance(c) == DispatchChecks(c, "hasSufficientAllowances")

\* mutant: the balance is checked where the allowance is meant
Settle_hasSufficientAllowance_checksBalance(c) ==
    \E i \in DOMAIN call[c].checks :
        SettleCheck(c, "hasSufficientAllowances", i,
                    hasSufficientBalanceAsync(call[c].components[i], ledger.balance[i],
                                              call[c].checks[i].required),
                    ledger.balance[i])

\* allowance of component i resolves and is compared
Settle_hasSufficientAllowance(c) ==
    \E i \in DOMAIN call[c].checks :
        SettleCheck(c, "hasSufficientAllowances", i,
                    hasSufficientAllowanceAsync(call[c].components[i], ledger.allowance[i],
                                                call[c].checks[i].required),
                    ledger.allowance[i])

\* one of the token instances cannot be obtained
InstancesFail(c) ==
    /\ call[c].op \in BalanceOps
    /\ call[c].pc = "instances"
    /\ Finish(c, call[c], NetworkFailure)

\* the read of the check of component i rejects
CheckReadFails(c) ==
    \E i \in DOMAIN call[c].checks :
        /\ call[c].op \in BalanceOps
        /\ SettleCheck(c, call[c].op, i, NetworkFailure, None)

(***************************************************************************)
(* The bid admission checks against an auction that is under way.          *)
(***************************************************************************)
BidInit ==
    /\ now = 0
    /\ \E inflow \in [ComponentIndexes -> 0..MaxUnitInflow] :
          ledger = [rebalanceState |-> REBALANCE,
                    manager |-> AddrLower,
                    lastRebalanceTimestamp |-> 0,
                    rebalanceInterval |-> 1,
                    proposalStartTime |-> 0,
                    proposalPeriod |-> 1,
                    minimumBid |-> 1,
                    remainingCurrentSets |-> MaxSets,
                    naturalUnit |-> 2,
                    unitInflow |-> inflow,
                    balance |-> [i \in ComponentIndexes |-> 0],
                    allowance |-> [i \in ComponentIndexes |-> 0]]
    /\ call = [c \in Callers |-> Idle]

BidNext ==
    \/ transfer
    \/ approve
    \/ priceMove
    \/ \E c \in DOMAIN call : Call_isMultipleOfNaturalUnitAsync(c)
    \/ \E c \in DOMAIN call : Resume_isMultipleOfNaturalUnitAsync(c)
    \/ \E c \in DOMAIN call : Call_isMultipleOfNaturalUnitAsync_unawaited(c)
    \/ \E c \in DOMAIN call : Resume_isMultipleOfNaturalUnitAsync_unawaited(c)
    \/ \E c \in DOMAIN call : Call_hasSufficientBalances(c)
    \/ \E c \in DOMAIN call : Read_getBidPrice_Balances(c)
    \/ \E c \in DOMAIN call : Read_getCombinedTokenArray_Balances(c)
    \/ \E c \in DOMAIN call : Dispatch_hasSufficientBalance(c)
    \/ \E c \in DOMAIN call : Settle_hasSufficientBalance(c)
    \/ \E c \in DOMAIN call : Call_hasSufficientAllowances(c)
    \/ \E c \in DOMAIN call : Read_getBidPrice_Allowances(c)
    \/ \E c \in DOMAIN call : Read_getCombinedTokenArray_Allowances(c)
    \/ \E c \in DOMAIN call : Dispatch_hasSufficientAllowance(c)
    \/ \E c \in DOMAIN call : Settle_hasSufficientAllowance(c)
    \/ \E c \in DOMAIN call : InstancesFail(c)
    \/ \E c \in DOMAIN call : CheckReadFails(c)
    \/ \E c \in DOMAIN call : Call_isNotInRebalanceState(c)
    \/ \E c \in DOMAIN call : Resume_isNotInRebalanceState(c)
    \/ \E c \in DOMAIN call : Call_isInProposalState(c)
    \/ \E c \in DOMAIN call : Resume_isInProposalState(c)
    \/ \E c \in DOMAIN call : Call_isInRebalanceState(c)
    \/ \E c \in DOMAIN call : Resume_isInRebalanceState(c)
    \/ \E c \in DOMAIN call : Call_isManager(c)
    \/ \E c \in DOMAIN call : Resume_isManager(c)
    \/ \E c \in DOMAIN call : Call_sufficientTimeBetweenRebalance(c)
    \/ \E c \in DOMAIN call : Read_lastRebalanceTimestamp(c)
    \/ \E c \in DOMAIN call : Resume_sufficientTimeBetweenRebalance(c)
    \/ \E c \in DOMAIN call : Call_sufficientTimeInProposalState(c)
    \/ \E c \in DOMAIN call : Read_proposalStartTime(c)
    \/ \E c \in DOMAIN call : Resume_sufficientTimeInProposalState(c)
    \/ \E c \in DOMAIN call : Call_enoughSetsRebalanced(c)
    \/ \E c \in DOMAIN call : Read_minimumBid(c)
    \/ \E c \in DOMAIN call : Resume_enoughSetsRebalanced(c)
    \/ \E c \in DOMAIN call : Call_bidAmountLessThanRemainingSets(c)
    \/ \E c \in DOMAIN call : Resume_bidAmountLessThanRemainingSets(c)
    \/ \E c \in DOMAIN call : Call_bidIsMultipleOfMinimumBid(c)
    \/ \E c \in DOMAIN call : Resume_bidIsMultipleOfMinimumBid(c)
    \/ \E c \in DOMAIN call : ReadFails(c)
    \/ \E c \in DOMAIN call : Return(c)

BidSpec == BidInit /\ [][BidNext]_vars

(***************************************************************************)
(* Two callers using the same assertions object against one rebalancing    *)
(* set token that goes through its phases while their calls are in flight. *)
(***************************************************************************)
ConcurrentCallers == {1, 2}

ConcurrentInit ==
    /\ now = 0
    /\ ledger = [rebalanceState |-> DEFAULT,
                 manager |-> AddrLower,
                 lastRebalanceTimestamp |-> 0,
                 rebalanceInterval |-> 1,
                 proposalStartTime |-> 0,
                 proposalPeriod |-> 1,
                 minimumBid |-> 0,
                 remainingCurrentSets |-> 0,
                 naturalUnit |-> 1,
                 unitInflow |-> [i \in ComponentIndexes |-> 0],
                 balance |-> [i \in ComponentIndexes |-> 0],
                 allowance |-> [i \in ComponentIndexes |-> 0]]
    /\ call = [c \in ConcurrentCallers |-> Idle]

ConcurrentNext ==
    \/ Tick
    \/ propose
    \/ rebalance
    \/ bid
    \/ settleRebalance
    \/ \E c \in DOMAIN call : Call_isInProposalState(c)
    \/ \E c \in DOMAIN call : Resume_isInProposalState(c)
    \/ \E c \in DOMAIN call : Call_enoughSetsRebalanced(c)
    \/ \E c \in DOMAIN call : Read_minimumBid(c)
    \/ \E c \in DOMAIN call : Resume_enoughSetsRebalanced(c)
    \/ \E c \in DOMAIN call : ReadFails(c)
    \/ \E c \in DOMAIN call : Return(c)

ConcurrentSpec == ConcurrentInit /\ [][ConcurrentNext]_vars

(***************************************************************************)
(* A bidder that holds one component at a time, against a rebalancing set  *)
(* token that goes through its phases: the ledger moves between the reads  *)
(* of the assertions that read more than once.                             *)
(***************************************************************************)
SnapshotInit ==
    /\ now = 0
    /\ ledger = [rebalanceState |-> DEFAULT,
                 manager |-> AddrLower,
                 lastRebalanceTimestamp |-> 0,
                 rebalanceInterval |-> 1,
                 proposalStartTime |-> 0,
                 proposalPeriod |-> 1,
                 minimumBid |-> 0,
                 remainingCurrentSets |-> 0,
                 naturalUnit |-> 1,
                 unitInflow |-> [i \in ComponentIndexes |-> 1],
                 balance |-> [i \in ComponentIndexes |->
                                 IF i = 1 THEN MaxBalance ELSE 0],
                 allowance |-> [i \in ComponentIndexes |-> 0]]
    /\ call = [c \in Callers |-> Idle]

SnapshotNext ==
    \/ Tick
    \/ propose
    \/ rebalance
    \/ bid
    \/ settleRebalance
    \/ swap
    \/ \E c \in DOMAIN call : Call_enoughSetsRebalanced(c)
    \/ \E c \in DOMAIN call : Read_minimumBid(c)
    \/ \E c \in DOMAIN call : Resume_enoughSetsRebalanced(c)
    \/ \E c \in DOMAIN call : Call_hasSufficientBalances(c)
    \/ \E c \in DOMAIN call : Read_getBidPrice_Balances(c)
    \/ \E c \in DOMAIN call : Read_getCombinedTokenArray_Balances(c)
    \/ \E c \in DOMAIN call : Dispatch_hasSufficientBalance(c)
    \/ \E c \in DOMAIN call : Settle_hasSufficientBalance(c)
    \/ \E c \in DOMAIN call : InstancesFail(c)
    \/ \E c \in DOMAIN call : CheckReadFails(c)
    \/ \E c \in DOMAIN call : ReadFails(c)
    \/ \E c \in DOMAIN call : Return(c)

SnapshotSpec == SnapshotInit /\ [][SnapshotNext]_vars

(***************************************************************************)
(* SetTokenAPI.calculateComponentAmountsForIssuanceAsync and               *)
(* calculateComponentAmountForIssuanceAsync, against a Set whose           *)
(* composition a rebalance replaces.                                       *)
(***************************************************************************)
\* quantities of a Set to issue
IssueQuantities == {0, 1, 3}

\* the compositions the Set goes through
Compositions ==
    {[components |-> <<TokenA, TokenB>>, units |-> <<1, 2>>, naturalUnit |-> 1],
     [components |-> <<TokenB>>, units |-> <<3>>, naturalUnit |-> 2]}

\* a rebalance completes: the Set has the components, units and natural
\* unit of its next composition
recompose ==
    /\ \E next \in Compositions :
          /\ next.components # ledger.components
          /\ ledger' = [ledger EXCEPT !.components = next.components,
                                      !.units = next.units,
                                      !.naturalUnit = next.naturalUnit]
    /\ UNCHANGED <<now, call>>

\* array[index] of JavaScript, positions counted from 1: undefined
\* outside the array
undefined == <<"undefined">>
elementAt(array, index) == IF index \in DOMAIN array THEN array[index] ELSE undefined

\* _.indexOf(array, value), positions counted from 1: 0 stands for
\* JavaScript's -1 (absent)
indexOf(array, value) ==
    IF \E i \in DOMAIN array : array[i] = value
    THEN CHOOSE i \in DOMAIN array :
            /\ array[i] = value
            /\ \A j \in DOMAIN array : array[j] = value => i <= j
    ELSE 0

\* calculatePartialAmount(principal, numerator, denominator):
\* principal * numerator / denominator, the quotient kept exact
calculatePartialAmount(principal, numerator, denominator) ==
    [num |-> principal * numerator, den |-> denominator]

assertcalculateComponentAmountsForIssuance(setAddress, quantity) ==
    IF isValidAddress("setAddress", setAddress) # Ok
    THEN isValidAddress("setAddress", setAddress)
    ELSE greaterThanZero(quantity, QUANTITY_NEEDS_TO_BE_POSITIVE(quantity))

IS_NOT_COMPONENT(setAddress, componentAddress) ==
    Err("IS_NOT_COMPONENT", <<setAddress, componentAddress>>)

\* the assertions of assertCalculateUnitTransferred that read nothing
assertCalculateUnitTransferred(setAddress, componentAddress, quantity) ==
    IF isValidAddress("setAddress", setAddress) # Ok
    THEN isValidAddress("setAddress", setAddress)
    ELSE IF isValidAddress("componentAddress", componentAddress) # Ok
    THEN isValidAddress("componentAddress", componentAddress)
    ELSE greaterThanZero(quantity, QUANTITY_NEEDS_TO_BE_POSITIVE(quantity))

\* mutant: numerator and denominator change places
amountsForIssuance_swapped(componentUnits, components, quantity, naturalUnit) ==
    [index \in DOMAIN componentUnits |->
        [address |-> elementAt(components, index),
         unit |-> calculatePartialAmount(componentUnits[index], naturalUnit, quantity)]]

\* _.map(componentUnits, (componentUnit, index) => ({address, unit}))
amountsForIssuance(componentUnits, components, quantity, naturalUnit) ==
    [index \in DOMAIN componentUnits |->
        [address |-> elementAt(components, index),
         unit |-> calculatePartialAmount(componentUnits[index], quantity, naturalUnit)]]

\* amountsForIssuance[componentIndex].unit: a TypeError on an undefined
\* entry
unitOf(amounts, componentIndex) ==
    IF componentIndex \in DOMAIN amounts
    THEN Value(amounts[componentIndex].unit)
    ELSE Err("TypeError", <<>>)

IssuanceOps == {"calculateComponentAmountsForIssuanceAsync",
                "calculateComponentAmountForIssuanceAsync"}

\* one of the three reads of Promise.all([naturalUnit, getUnits,
\* getComponents]) has resolved, leaving the frame as given: when all
\* three have, the amounts are computed and the call returns
Joined(c, frame) ==
    LET joined == promiseAll(Pending, Ok,
                             <<IF frame.r1 # None THEN Ok ELSE Pending,
                               IF frame.componentUnits # <<>> THEN Ok ELSE Pending,
                               IF frame.components # <<>> THEN Ok ELSE Pending>>)
        amounts == amountsForIssuance(frame.componentUnits, frame.components,
                                      frame.quantity, frame.r1)
    IN IF joined = Ok
       THEN Finish(c, frame,
                   IF frame.op = "calculateComponentAmountsForIssuanceAsync"
                   THEN Value(amounts)
                   ELSE unitOf(amounts, frame.componentIndex))
       ELSE /\ call' = [call EXCEPT ![c] = frame]
            /\ UNCHANGED <<ledger, now>>

Call_calculateComponentAmountsForIssuanceAsync(c) ==
    /\ call[c].pc = "idle"
    /\ \E setAddress \in {SetAddr, NotAnAddress}, quantity \in IssueQuantities :
          LET frame == [Idle EXCEPT !.op = "calculateComponentAmountsForIssuanceAsync",
                                    !.setAddress = setAddress,
                                    !.quantity = quantity]
              thrown == assertcalculateComponentAmountsForIssuance(setAddress, quantity)
          IN call' = [call EXCEPT ![c] =
                        IF thrown # Ok
                        THEN [frame EXCEPT !.pc = "done", !.result = thrown]
                        ELSE [frame EXCEPT !.pc = "all3"]]
    /\ UNCHANGED <<ledger, now>>

\* this.setToken.naturalUnit(setAddress) resolves
Read_naturalUnit(c) ==
    /\ call[c].op \in IssuanceOps
    /\ call[c].pc = "all3"
    /\ call[c].r1 = None
    /\ Joined(c, [call[c] EXCEPT !.r1 = ledger.naturalUnit])

\* this.setToken.getUnits(setAddress) resolves
Read_getUnits(c) ==
    /\ call[c].op \in IssuanceOps
    /\ call[c].pc = "all3"
    /\ call[c].componentUnits = <<>>
    /\ Joined(c, [call[c] EXCEPT !.componentUnits = ledger.units])

\* this.setToken.getComponents(setAddress) resolves
Read_getComponents(c) ==
    /\ call[c].op \in IssuanceOps
    /\ call[c].pc = "all3"
    /\ call[c].components = <<>>
    /\ Joined(c, [call[c] EXCEPT !.components = ledger.components])

\* one of the three reads rejects
IssuanceReadFails(c) ==
    /\ call[c].op \in IssuanceOps
    /\ call[c].pc = "all3"
    /\ Finish(c, call[c], NetworkFailure)

\* the call runs up to the getComponents of assertCalculateUnitTransferred
Call_calculateComponentAmountForIssuanceAsync(c) ==
    /\ call[c].pc = "idle"
    /\ \E setAddress \in {SetAddr, NotAnAddress},
          componentAddress \in {TokenA, TokenB, NotAnAddress},
          quantity \in IssueQuantities :
          LET frame == [Idle EXCEPT !.op = "calculateComponentAmountForIssuanceAsync",
                                    !.setAddress = setAddress,
                                    !.componentAddress = componentAddress,
                                    !.quantity = quantity]
              thrown == assertCalculateUnitTransferred(setAddress, componentAddress,
                                                       quantity)
          IN call' = [call EXCEPT ![c] =
                        IF thrown # Ok
                        THEN [frame EXCEPT !.pc = "done", !.result = thrown]
                        ELSE [frame EXCEPT !.pc = "read1"]]
    /\ UNCHANGED <<ledger, now>>

\* getComponents resolves inside assertCalculateUnitTransferred: the
\* membership check; then getComponents is requested again
Resume_assertCalculateUnitTransferred(c) ==
    /\ At(c, "calculateComponentAmountForIssuanceAsync", "read1")
    /\ LET componentAddresses == ledger.components
           componentIndex == indexOf(componentAddresses, call[c].componentAddress)
       IN IF componentIndex < 1
          THEN Finish(c, call[c],
                      IS_NOT_COMPONENT(call[c].setAddress, call[c].componentAddress))
          ELSE /\ call' = [call EXCEPT ![c].pc = "read2"]
               /\ UNCHANGED <<ledger, now>>

\* getComponents resolves a second time: the index is taken, and
\* calculateComponentAmountsForIssuanceAsync is called and requests its reads
Read_componentIndex(c) ==
    /\ At(c, "calculateComponentAmountForIssuanceAsync", "read2")
    /\ LET components == ledger.components
           componentIndex == indexOf(components, call[c].componentAddress)
           thrown == assertcalculateComponentAmountsForIssuance(call[c].setAddress,
                                                                call[c].quantity)
       IN IF thrown # Ok
          THEN Finish(c, [call[c] EXCEPT !.componentIndex = componentIndex], thrown)
          ELSE /\ call' = [call EXCEPT ![c].componentIndex = componentIndex,
                                       ![c].pc = "all3"]
               /\ UNCHANGED <<ledger, now>>

IssuanceInit ==
    /\ now = 0
    /\ \E first \in Compositions :
          ledger = [rebalanceState |-> DEFAULT,
                    manager |-> AddrLower,
                    lastRebalanceTimestamp |-> 0,
                    rebalanceInterval |-> 1,
                    proposalStartTime |-> 0,
                    proposalPeriod |-> 1,
                    minimumBid |-> 0,
                    remainingCurrentSets |-> 0,
                    naturalUnit |-> first.naturalUnit,
                    unitInflow |-> [i \in ComponentIndexes |-> 0],
                    balance |-> [i \in ComponentIndexes |-> 0],
                    allowance |-> [i \in ComponentIndexes |-> 0],
                    components |-> first.components,
                    units |-> first.units]
    /\ call = [c \in Callers |-> Idle]

IssuanceNext ==
    \/ recompose
    \/ \E c \in DOMAIN call : Call_calculateComponentAmountsForIssuanceAsync(c)
    \/ \E c \in DOMAIN call : Call_calculateComponentAmountForIssuanceAsync(c)
    \/ \E c \in DOMAIN call : Resume_assertCalculateUnitTransferred(c)
    \/ \E c \in DOMAIN call : Read_componentIndex(c)
    \/ \E c \in DOMAIN call : Read_naturalUnit(c)
    \/ \E c \in DOMAIN call : Read_getUnits(c)
    \/ \E c \in DOMAIN call : Read_getComponents(c)
    \/ \E c \in DOMAIN call : IssuanceReadFails(c)
    \/ \E c \in DOMAIN call : ReadFails(c)
    \/ \E c \in DOMAIN call : Return(c)

IssuanceSpec == IssuanceInit /\ [][IssuanceNext]_vars

(***************************************************************************)
(* Properties.                                                             *)
(***************************************************************************)
\* the call of c is a finished call of op whose reads all resolved
Decided(c, op) ==
    /\ call[c].op = op
    /\ call[c].pc = "done"
    /\ call[c].result.kind # "NetworkFailure"

\* C1: isInProposalState succeeds if and only if the state it read from
\* the ledger is Proposal; for Default and for Rebalance it throws
\* INCORRECT_STATE (the phase violation).
C1_InProposalIffProposal ==
    \A c \in DOMAIN call :
        Decided(c, "isInProposalState") =>
            /\ call[c].r1 \in RebalancingStates
            /\ (call[c].result = Ok) <=> (call[c].r1 = PROPOSAL)
            /\ (call[c].r1 \in {DEFAULT, REBALANCE}) =>
                   call[c].result.kind = "INCORRECT_STATE"

C1_Witness ==
    \E c \in DOMAIN call :
        /\ Decided(c, "isInProposalState")
        /\ call[c].r1 = DEFAULT
        /\ call[c].result.kind = "INCORRECT_STATE"

\* C2: isInRebalanceState succeeds if and only if the state it read from
\* the ledger is Rebalance; for Default and Proposal it throws
\* INCORRECT_STATE.
C2_InRebalanceIffRebalance ==
    \A c \in DOMAIN call :
        Decided(c, "isInRebalanceState") =>
            /\ call[c].r1 \in RebalancingStates
            /\ (call[c].result = Ok) <=> (call[c].r1 = REBALANCE)
            /\ (call[c].r1 \in {DEFAULT, PROPOSAL}) =>
                   call[c].result.kind = "INCORRECT_STATE"

C2_Witness ==
    \E c \in DOMAIN call :
        /\ Decided(c, "isInRebalanceState")
        /\ call[c].r1 = REBALANCE
        /\ call[c].result = Ok

\* C3: isNotInRebalanceState throws REBALANCE_IN_PROGRESS if and only if
\* the state it read from the ledger is Rebalance; it succeeds for both
\* Default and Proposal.
C3_NotInRebalanceIffNotRebalance ==
    \A c \in DOMAIN call :
        Decided(c, "isNotInRebalanceState") =>
            /\ call[c].r1 \in RebalancingStates
            /\ (call[c].result.kind = "REBALANCE_IN_PROGRESS") <=> (call[c].r1 = REBALANCE)
            /\ (call[c].r1 \in {DEFAULT, PROPOSAL}) => call[c].result = Ok

C3_Witness ==
    \E c \in DOMAIN call :
        /\ Decided(c, "isNotInRebalanceState")
        /\ call[c].r1 = PROPOSAL
        /\ call[c].result = Ok

\* C4: isManager succeeds if and only if the caller denotes the basket's
\* manager, the two addresses being compared after consistent
\* normalisation of letter case; any other caller gets
\* NOT_REBALANCING_MANAGER.
C4_ManagerUpToCase ==
    \A c \in DOMAIN call :
        Decided(c, "isManager") =>
            /\ (call[c].result = Ok) <=> SameAccount(call[c].addr, call[c].caller)
            /\ ~SameAccount(call[c].addr, call[c].caller) =>
                   call[c].result.kind = "NOT_REBALANCING_MANAGER"

\* C5: sufficientTimeBetweenRebalance throws INSUFFICIENT_TIME_PASSED if
\* and only if now < (lastRebalanceTimestamp + rebalanceInterval) * 1000;
\* at now equal to that instant and at every later now it succeeds.
C5_RebalanceIntervalElapsed ==
    \A c \in DOMAIN call :
        Decided(c, "sufficientTimeBetweenRebalance") =>
            LET nextAvailable == (call[c].r1 + call[c].r2) * 1000
            IN /\ call[c].r1 >= 0 /\ call[c].r2 >= 0 /\ call[c].clock >= 0
               /\ (call[c].result.kind = "INSUFFICIENT_TIME_PASSED") <=>
                      (call[c].clock < nextAvailable)
               /\ (call[c].result = Ok) <=> (call[c].clock >= nextAvailable)

C5_Witness ==
    \E c \in DOMAIN call :
        /\ Decided(c, "sufficientTimeBetweenRebalance")
        /\ call[c].clock = (call[c].r1 + call[c].r2) * 1000
        /\ call[c].result = Ok

\* C6: sufficientTimeInProposalState throws INSUFFICIENT_TIME_PASSED if
\* and only if now < (proposalStartTime + proposalPeriod) * 1000; at now
\* equal to that instant and later it succeeds.
C6_ProposalPeriodElapsed ==
    \A c \in DOMAIN call :
        Decided(c, "sufficientTimeInProposalState") =>
            LET nextAvailable == (call[c].r1 + call[c].r2) * 1000
            IN /\ call[c].r1 >= 0 /\ call[c].r2 >= 0 /\ call[c].clock >= 0
               /\ (call[c].result.kind = "INSUFFICIENT_TIME_PASSED") <=>
                      (call[c].clock < nextAvailable)
               /\ (call[c].result = Ok) <=> (call[c].clock >= nextAvailable)

C6_Witness ==
    \E c \in DOMAIN call :
        /\ Decided(c, "sufficientTimeInProposalState")
        /\ call[c].r1 > 0
        /\ call[c].clock = (call[c].r1 + call[c].r2) * 1000
        /\ call[c].result = Ok

\* the instants a timing guard can compute within the bounds of the model
NextAvailableValues ==
    { (t + p) * 1000 : t \in 0..(MaxNow \div 1000),
                       p \in RebalanceIntervals \cup ProposalPeriods }

TimingFailure(c) ==
    /\ call[c].op \in {"sufficientTimeBetweenRebalance", "sufficientTimeInProposalState"}
    /\ call[c].pc = "done"
    /\ call[c].result.kind = "INSUFFICIENT_TIME_PASSED"

C8_EnoughSetsRebalanced ==
    \A c \in DOMAIN call :
        Decided(c, "enoughSetsRebalanced") =>
            /\ call[c].r1 >= 0 /\ call[c].r2 >= 0
            /\ (call[c].result.kind = "NOT_ENOUGH_SETS_REBALANCED") <=>
                   (call[c].r2 >= call[c].r1)
            /\ (call[c].result = Ok) <=> (call[c].r2 < call[c].r1)

C8_Witness ==
    \E c \in DOMAIN call :
        /\ Decided(c, "enoughSetsRebalanced")
        /\ call[c].r1 > 0
        /\ call[c].r2 = call[c].r1
        /\ call[c].result.kind = "NOT_ENOUGH_SETS_REBALANCED"

\* C9: bidAmountLessThanRemainingSets throws
\* BID_AMOUNT_EXCEEDS_REMAINING_CURRENT_SETS if and only if the quantity
\* is greater than remainingCurrentSets; an equal or smaller quantity
\* succeeds.
C9_WithinRemainingSupply ==
    \A c \in DOMAIN call :
        Decided(c, "bidAmountLessThanRemainingSets") =>
            /\ call[c].r1 >= 0
            /\ (call[c].result.kind = "BID_AMOUNT_EXCEEDS_REMAINING_CURRENT_SETS") <=>
                   (call[c].quantity > call[c].r1)
            /\ (call[c].result = Ok) <=> (call[c].quantity <= call[c].r1)

C9_Witness ==
    \E c \in DOMAIN call :
        /\ Decided(c, "bidAmountLessThanRemainingSets")
        /\ call[c].quantity > 0
        /\ call[c].quantity = call[c].r1
        /\ call[c].result = Ok

\* C10: for every quantity and every minimumBid > 0,
\* bidIsMultipleOfMinimumBid succeeds if and only if
\* quantity mod minimumBid = 0, and otherwise throws
\* BID_AMOUNT_NOT_MULTIPLE_OF_MINIMUM_BID.
C10_MultipleOfMinimumBid ==
    \A c \in DOMAIN call :
        (Decided(c, "bidIsMultipleOfMinimumBid") /\ call[c].r1 > 0) =>
            /\ (call[c].result = Ok) <=> (call[c].quantity % call[c].r1 = 0)
            /\ (call[c].quantity % call[c].r1 # 0) =>
                   call[c].result.kind = "BID_AMOUNT_NOT_MULTIPLE_OF_MINIMUM_BID"

C10_Witness ==
    \E c \in DOMAIN call :
        /\ Decided(c, "bidIsMultipleOfMinimumBid")
        /\ call[c].r1 = 2
        /\ call[c].quantity = 3
        /\ call[c].result.kind = "BID_AMOUNT_NOT_MULTIPLE_OF_MINIMUM_BID"

\* C11: the positive-quantity assertion throws
\* QUANTITY_NEEDS_TO_BE_POSITIVE for every quantity <= 0, zero included,
\* and passes for every quantity > 0.
C11_PositiveQuantity ==
    \A c \in DOMAIN call :
        (/\ call[c].op = "isMultipleOfNaturalUnitAsync"
         /\ isValidAddress("setAddress", call[c].setAddress) = Ok) =>
            /\ (call[c].quantity <= 0) <=>
                   (call[c].result.kind = "QUANTITY_NEEDS_TO_BE_POSITIVE")
            /\ (call[c].quantity <= 0) =>
                   (call[c].pc = "done" /\ call[c].r1 = None)
            /\ (call[c].quantity > 0) =>
                   call[c].result.kind \in {"pending", "value", "NetworkFailure"}

C11_Witness ==
    \E c \in DOMAIN call :
        /\ call[c].op = "isMultipleOfNaturalUnitAsync"
        /\ call[c].setAddress = SetAddr
        /\ call[c].quantity = 0
        /\ call[c].result.kind = "QUANTITY_NEEDS_TO_BE_POSITIVE"

\* the checks of a call that have read a value
Read(c) == {i \in DOMAIN call[c].checks : call[c].checks[i].actual # None}

\* the checks of a call that have been rejected, for whatever reason
Rejected(c) ==
    {i \in DOMAIN call[c].checks : call[c].checks[i].outcome \notin {Pending, Ok}}

\* the outcome of a finished balance / allowance assertion, stated over
\* the inflows and the amounts its checks read: it passes if and only if
\* every component was read and holds at least its inflow wherever the
\* inflow is positive, and a failure names a component that falls short
FundsChecked(c, kind) ==
    /\ (call[c].result = Ok) <=>
          /\ Read(c) = ComponentIndexes
          /\ \A i \in ComponentIndexes :
                call[c].inflowArray[i] > 0 =>
                    call[c].checks[i].actual >= call[c].inflowArray[i]
    /\ (call[c].result # Ok) =>
          \E i \in Read(c) :
              /\ call[c].inflowArray[i] > 0
              /\ call[c].checks[i].actual < call[c].inflowArray[i]
              /\ call[c].result =
                    Err(kind, <<CombinedTokenArray[i], call[c].inflowArray[i],
                                call[c].checks[i].actual>>)

\* C12: hasSufficientBalances succeeds if and only if, for every index i
\* of the combined token array with inflow[i] > 0, the balance read for
\* component i is >= inflow[i] (an equal balance passes); otherwise it
\* fails with INSUFFICIENT_BALANCE(component, required, actual).
C12_SufficientBalances ==
    \A c \in DOMAIN call :
        Decided(c, "hasSufficientBalances") => FundsChecked(c, "INSUFFICIENT_BALANCE")

C12_Witness ==
    \E c \in DOMAIN call :
        /\ Decided(c, "hasSufficientBalances")
        /\ call[c].result = Ok
        /\ call[c].inflowArray[1] = 0
        /\ call[c].inflowArray[2] = 2
        /\ call[c].checks[2].actual = 2

\* the checks of a call that found their component short of funds
Failing(c) ==
    {i \in DOMAIN call[c].checks :
        call[c].checks[i].outcome.kind \in {"INSUFFICIENT_BALANCE",
                                            "INSUFFICIENT_ALLOWANCE"}}

\* C13: when more than one component fails its check, the failure
\* reported is that of the failing component with the lowest index in
\* the combined token array, in whatever order the checks complete.
C13_LowestIndexReported ==
    \A c \in DOMAIN call :
        (/\ call[c].op \in BalanceOps
         /\ call[c].pc = "done"
         /\ Rejected(c) = Failing(c)
         /\ Cardinality(Failing(c)) > 1) =>
            LET lowest == CHOOSE i \in Failing(c) : \A j \in Failing(c) : i <= j
            IN call[c].result = call[c].checks[lowest].outcome

\* C14: hasSufficientAllowances succeeds if and only if, for every index
\* i of the combined token array with inflow[i] > 0, the allowance read
\* for component i is >= inflow[i]; otherwise it fails with
\* INSUFFICIENT_ALLOWANCE for a component that falls short.
C14_SufficientAllowances ==
    \A c \in DOMAIN call :
        Decided(c, "hasSufficientAllowances") =>
            FundsChecked(c, "INSUFFICIENT_ALLOWANCE")

C14_Witness ==
    \E c \in DOMAIN call :
        /\ Decided(c, "hasSufficientAllowances")
        /\ call[c].result.kind = "INSUFFICIENT_ALLOWANCE"
        /\ call[c].checks[1].actual = MaxBalance
        /\ call[c].checks[2].actual = 0
        /\ call[c].inflowArray[2] > 0

\* a finished call one of whose ledger reads was rejected: the value the
\* read would have delivered is missing from the frame
ReadFailed(c) ==
    /\ call[c].pc = "done"
    /\ CASE call[c].op \in {"isNotInRebalanceState", "isInProposalState",
                            "isInRebalanceState", "bidAmountLessThanRemainingSets",
                            "bidIsMultipleOfMinimumBid"} -> call[c].r1 = None
         [] call[c].op = "isManager" -> call[c].addr = NoAddress
         [] call[c].op \in {"sufficientTimeBetweenRebalance",
                            "sufficientTimeInProposalState",
                            "enoughSetsRebalanced"} -> call[c].r2 = None
         [] call[c].op = "isMultipleOfNaturalUnitAsync" ->
                /\ call[c].r1 = None
                /\ assertIsMultipleOfNaturalUnitAsync(call[c].setAddress,
                                                      call[c].quantity) = Ok
         [] call[c].op \in BalanceOps ->
                \/ call[c].checks = <<>>
                \/ \E i \in DOMAIN call[c].checks :
                       call[c].checks[i].outcome = NetworkFailure
         [] OTHER -> FALSE

\* C15: a guard one of whose ledger reads failed with
\* NetworkFailure fails with that NetworkFailure.
C15_NetworkFailureReported ==
    \A c \in DOMAIN call : ReadFailed(c) => call[c].result = NetworkFailure

\* C16: every guard whose reads have all completed has ended in exactly
\* one outcome, success or one failure; concurrent checks of which some
\* fail surface one failure, never success, and the outcome, once
\* reported, does not change when further checks complete.
C16_ExactlyOneOutcome ==
    /\ [](\A c \in DOMAIN call :
            /\ (call[c].pc = "done") <=> (call[c].result # Pending)
            /\ (/\ call[c].op \in BalanceOps
                /\ call[c].checks # <<>>
                /\ \A i \in DOMAIN call[c].checks : call[c].checks[i].outcome # Pending)
                   => call[c].pc = "done"
            /\ (call[c].op \in BalanceOps /\ call[c].pc = "done") =>
                   ((call[c].result = Ok) <=>
                        /\ call[c].checks # <<>>
                        /\ \A i \in DOMAIN call[c].checks : call[c].checks[i].outcome = Ok))
    /\ [][\A c \in DOMAIN call :
            (call[c].pc = "done" /\ call'[c].pc = "done") =>
                call'[c].result = call[c].result]_vars

C16_Witness ==
    \E c \in DOMAIN call :
        /\ call[c].op = "hasSufficientBalances"
        /\ call[c].pc = "done"
        /\ DOMAIN call[c].checks = ComponentIndexes
        /\ call[c].checks[1].outcome = Ok
        /\ call[c].checks[2].outcome.kind = "INSUFFICIENT_BALANCE"
        /\ call[c].checks[1].order < call[c].checks[2].order
        /\ call[c].result = call[c].checks[2].outcome

\* C17: no guard changes ledger state: a step of a guard call leaves the
\* phase, the manager, the timestamps, the minimum bid, the remaining
\* sets, the balances and the allowances as they were; only the ledger's
\* own transitions change them.
C17_GuardsReadOnly ==
    [][(call' # call) => (ledger' = ledger /\ now' = now)]_vars

C17_Witness ==
    \E c \in DOMAIN call :
        /\ call[c].op = "hasSufficientBalances"
        /\ call[c].pc = "done"
        /\ call[c].result = Ok
        /\ call[c].inflowArray[1] > 0
        /\ \A i \in ComponentIndexes : call[c].checks[i].actual = ledger.balance[i]
        /\ ledger.remainingCurrentSets = MaxSets

\* C19: inside a balance / allowance assertion the price-curve query has
\* completed before any per-component read is issued, and the
\* per-component reads are all issued before any of them is awaited:
\* they are in flight together and awaited jointly.
C19_PriceBeforeJointReads ==
    \A c \in DOMAIN call :
        call[c].op \in BalanceOps =>
            /\ (call[c].pc \in {"read1", "read2", "instances"}) =>
                   (call[c].checks = <<>> /\ call[c].settled = 0)
            /\ (call[c].pc = "read1") => (call[c].inflowArray = <<>>)
            /\ (call[c].checks # <<>>) =>
                   /\ call[c].inflowArray # <<>>
                   /\ call[c].components = CombinedTokenArray
                   /\ DOMAIN call[c].checks = DOMAIN call[c].components
                   /\ \A i \in DOMAIN call[c].checks :
                         call[c].checks[i].required = call[c].inflowArray[i]
            /\ (call[c].pc = "all") =>
                   /\ call[c].checks # <<>>
                   /\ \E i \in DOMAIN call[c].checks : call[c].checks[i].outcome = Pending

C19_Witness ==
    \E c \in DOMAIN call :
        /\ call[c].op = "hasSufficientAllowances"
        /\ call[c].pc = "all"
        /\ DOMAIN call[c].checks = ComponentIndexes
        /\ call[c].inflowArray[1] > 0
        /\ \A i \in ComponentIndexes : call[c].checks[i].outcome = Pending

\* C18: guards keep no state between calls: a call starts with nothing
\* read, every value it uses is the ledger's value at the moment the
\* call reads it, and its outcome is decided by those values alone; a
\* call made in Proposal succeeds while a later requireInProposal call
\* made after the phase moved to Rebalance fails.
C18_OutcomeFromOwnReads ==
    [][\A c \in DOMAIN call :
          /\ (call[c].pc = "idle" /\ call'[c].pc # "idle") =>
                /\ call'[c].r1 = None
                /\ call'[c].r2 = None
                /\ call'[c].result = Pending
          /\ (call[c].op = "enoughSetsRebalanced" /\ call[c].pc = "read1"
                /\ call'[c].pc = "read2") =>
                call'[c].r1 = ledger.minimumBid
          /\ (call[c].pc \in {"read1", "read2"} /\ call'[c].pc = "done"
                /\ call'[c].result # NetworkFailure) =>
                CASE call[c].op = "isInProposalState" ->
                        /\ call'[c].r1 = ledger.rebalanceState
                        /\ call'[c].result = isInProposalState(ledger.rebalanceState)
                  [] call[c].op = "enoughSetsRebalanced" ->
                        /\ call'[c].r1 = call[c].r1
                        /\ call'[c].r2 = ledger.remainingCurrentSets
                        /\ call'[c].result =
                              enoughSetsRebalanced(call[c].r1, ledger.remainingCurrentSets)
                  [] OTHER -> FALSE]_vars

C18_Witness ==
    /\ Decided(1, "isInProposalState")
    /\ call[1].r1 = PROPOSAL
    /\ call[1].result = Ok
    /\ Decided(2, "isInProposalState")
    /\ call[2].r1 = REBALANCE
    /\ call[2].result.kind = "INCORRECT_STATE"
    /\ ledger.rebalanceState = REBALANCE

\* the outcome a finished call would produce running alone on the values
\* its own reads returned
OutcomeAlone(c) ==
    CASE call[c].op = "isInProposalState" -> isInProposalState(call[c].r1)
      [] call[c].op = "enoughSetsRebalanced" ->
            enoughSetsRebalanced(call[c].r1, call[c].r2)
      [] OTHER -> Pending

\* C20: guard calls are re-entrant: with the reads of several callers
\* interleaved, each finished call has the outcome it would produce
\* alone on the values its own reads returned, and no step of one call
\* touches another call in flight.
C20_Reentrant ==
    /\ [](\A c \in DOMAIN call :
            (call[c].pc = "done" /\ call[c].result # NetworkFailure) =>
                call[c].result = OutcomeAlone(c))
    /\ [][\A c, d \in DOMAIN call :
            (c # d /\ call'[c] # call[c]) => call'[d] = call[d]]_vars

C20_Witness ==
    /\ Decided(1, "enoughSetsRebalanced")
    /\ Decided(2, "enoughSetsRebalanced")
    /\ call[1].r1 = call[2].r1
    /\ call[1].r2 # call[2].r2
    /\ call[1].result = Ok
    /\ call[2].result.kind = "NOT_ENOUGH_SETS_REBALANCED"

\* the ledger, as it stands, holds enough of every component for a bid
CoversBid(quantity) ==
    \A i \in ComponentIndexes : ledger.balance[i] >= getBidPrice(quantity)[i]

\* C21: a guard that reads the ledger more than once takes no consistent
\* snapshot: each value is the ledger's at the moment of its own read, an
\* earlier value is kept and not read again when the ledger has moved
\* on, and the guard decides on the mixed values; so hasSufficientBalances
\* succeeds for a bidder whose balances covered the bid in no single
\* ledger state, and what a check found no longer holds on return.
C21_NoConsistentSnapshot ==
    /\ [](\A quantity \in BidQuantities : ~CoversBid(quantity))
    /\ [][\A c \in DOMAIN call :
            /\ (call[c].op = "enoughSetsRebalanced" /\ call[c].pc = "read2"
                  /\ call'[c].pc = "done" /\ call'[c].result # NetworkFailure) =>
                  /\ call'[c].r1 = call[c].r1
                  /\ call'[c].r2 = ledger.remainingCurrentSets
                  /\ call'[c].result =
                        enoughSetsRebalanced(call[c].r1, ledger.remainingCurrentSets)
            /\ (call[c].op = "hasSufficientBalances" /\ call[c].pc \in {"all", "done"}
                  /\ call'[c].op = "hasSufficientBalances"
                  /\ call'[c].pc \in {"all", "done"}) =>
                  /\ call'[c].inflowArray = call[c].inflowArray
                  /\ \A i \in DOMAIN call[c].checks :
                        \/ call'[c].checks[i] = call[c].checks[i]
                        \/ /\ call[c].checks[i].outcome = Pending
                           /\ call'[c].checks[i].required = call[c].inflowArray[i]
                           /\ call'[c].checks[i].actual \in {None, ledger.balance[i]}
                  /\ (call'[c].result = Ok) =>
                        \A i \in DOMAIN call'[c].checks :
                            call'[c].checks[i].actual >= call[c].inflowArray[i]]_vars

C21_Witness ==
    \E c \in DOMAIN call :
        /\ Decided(c, "hasSufficientBalances")
        /\ call[c].result = Ok
        /\ \A i \in ComponentIndexes : call[c].inflowArray[i] > 0
        /\ ~CoversBid(call[c].quantity)

\* C22: hasSufficientBalances checks the balance only of the components
\* whose inflow is > 0: the check that makes the call fail is never the
\* check of a component with inflow 0, whatever the balance of it and
\* whether or not a read of its balance fails.
C22_ZeroInflowNeverFails ==
    \A c \in DOMAIN call :
        call[c].op = "hasSufficientBalances" =>
            \A i \in DOMAIN call[c].checks :
                call[c].inflowArray[i] = 0 =>
                    ~(/\ call[c].checks[i].outcome \notin {Pending, Ok}
                      /\ call[c].result = call[c].checks[i].outcome
                      /\ \A j \in Rejected(c) :
                            call[c].checks[i].order <= call[c].checks[j].order)

\* C23: in isMultipleOfNaturalUnitAsync, in either version, the
\* positive-quantity precondition gates the operation: a call with a
\* valid address and a quantity <= 0 fails with
\* QUANTITY_NEEDS_TO_BE_POSITIVE, reads no natural unit and never
\* resolves with a boolean.
C23_QuantityGatesRead ==
    \A c \in DOMAIN call :
        (/\ call[c].op \in {"isMultipleOfNaturalUnitAsync",
                            "isMultipleOfNaturalUnitAsync_unawaited"}
         /\ call[c].setAddress = SetAddr
         /\ call[c].quantity <= 0) =>
            /\ call[c].pc = "done"
            /\ call[c].result = QUANTITY_NEEDS_TO_BE_POSITIVE(call[c].quantity)
            /\ call[c].r1 = None

\* which of isNotInRebalanceState, isInProposalState, isInRebalanceState
\* succeed on a state
PhaseGuards(currentState) ==
    <<isNotInRebalanceState(currentState) = Ok,
      isInProposalState(currentState) = Ok,
      isInRebalanceState(currentState) = Ok>>

\* C24: along every run of the lifecycle Default -> Proposal -> Rebalance
\* -> Default the three phase guards, evaluated on the same phase,
\* partition the phases: in Default only isNotInRebalanceState succeeds,
\* in Proposal isNotInRebalanceState and isInProposalState succeed, in
\* Rebalance only isInRebalanceState succeeds; every finished phase guard
\* has the outcome this gives for the phase it read.
C24_PhasePartition ==
    /\ [](/\ ledger.rebalanceState \in RebalancingStates
          /\ PhaseGuards(ledger.rebalanceState) =
                CASE ledger.rebalanceState = DEFAULT -> <<TRUE, FALSE, FALSE>>
                  [] ledger.rebalanceState = PROPOSAL -> <<TRUE, TRUE, FALSE>>
                  [] ledger.rebalanceState = REBALANCE -> <<FALSE, FALSE, TRUE>>
          /\ \A c \in DOMAIN call :
                /\ Decided(c, "isNotInRebalanceState") =>
                      ((call[c].result = Ok) <=> PhaseGuards(call[c].r1)[1])
                /\ Decided(c, "isInProposalState") =>
                      ((call[c].result = Ok) <=> PhaseGuards(call[c].r1)[2])
                /\ Decided(c, "isInRebalanceState") =>
                      ((call[c].result = Ok) <=> PhaseGuards(call[c].r1)[3]))
    /\ [][ledger'.rebalanceState # ledger.rebalanceState =>
            \/ ledger.rebalanceState = DEFAULT /\ ledger'.rebalanceState = PROPOSAL
            \/ ledger.rebalanceState = PROPOSAL /\ ledger'.rebalanceState = REBALANCE
            \/ ledger.rebalanceState = REBALANCE /\ ledger'.rebalanceState = DEFAULT]_vars

C24_Witness ==
    /\ ledger.rebalanceState = PROPOSAL
    /\ ledger.lastRebalanceTimestamp > 0
    /\ \E c \in DOMAIN call :
          /\ Decided(c, "isInRebalanceState")
          /\ call[c].r1 = PROPOSAL
          /\ call[c].result.kind = "INCORRECT_STATE"

\* C25: calculateComponentAmountForIssuanceAsync fails with
\* IS_NOT_COMPONENT when componentAddress is not among the components it
\* read for the membership check, and whenever it returns a value that
\* value is the amount of exactly that component: the entry at the
\* component's index in the component list used for the calculation,
\* never the entry of another component.
C25_AmountOfThatComponent ==
    \A c \in DOMAIN call :
        (/\ call[c].op = "calculateComponentAmountForIssuanceAsync"
         /\ call[c].pc = "done") =>
            /\ (call[c].result.kind = "IS_NOT_COMPONENT") =>
                  (call[c].componentIndex = None /\ call[c].components = <<>>)
            /\ (call[c].result.kind = "value") =>
                  /\ call[c].componentIndex =
                        indexOf(call[c].components, call[c].componentAddress)
                  /\ elementAt(call[c].components, call[c].componentIndex) =
                        call[c].componentAddress
                  /\ call[c].result =
                        Value(calculatePartialAmount(
                                  call[c].componentUnits[call[c].componentIndex],
                                  call[c].quantity, call[c].r1))

====
